---- MODULE Spec2Model ----
(***************************************************************************)
(* not_a_timer: a cooperative "run until told to stop" loop that runs a    *)
(* step function on the calling thread (run) or on a std::async task       *)
(* (run_async), with stop(), is_running() and a destructor that waits for  *)
(* the task.  Modelled from src/not_a_timer/not_a_timer.cpp.               *)
(*                                                                         *)
(* Two threads are modelled: the caller (the thread owning the object) and *)
(* the std::async task.  Each statement that touches shared state (the two *)
(* atomics, the mutex, the condition variable, the future, the callable)   *)
(* is one action, so every interleaving of the two threads is explored.    *)
(***************************************************************************)
EXTENDS Integers, FiniteSets, Sequences, TLC

\* Largest initial value of the step function's counter (tests use 100 and 360'000'000).
MaxN == 3
\* Cap on step-function invocations of one loop (bounds loops that never end).
MaxCalls == 4
\* Number of run / run_async calls made on one not_a_timer object.
MaxRuns == 2

VARIABLES
    \* ---- fields of not_a_timer (lines 77-81)
    keep_running,     \* std::atomic<bool> _keep_running
    is_running,       \* std::atomic<bool> _is_running
    running_fn,       \* std::optional<std::future<void>> _running_fn: has_value()
    futureExc,        \* the future's shared state holds an exception
    mutex,            \* std::mutex _mutex: "free", "caller" or "bg"
    \* ---- control state
    callerPc,         \* position of the thread that owns the object
    bgPc,             \* position of the std::async task
    runPc,            \* position inside the current activation of run()
    runThread,        \* thread executing run(): "none", "caller" or "bg"
    pendingExc,       \* an exception is propagating out of run()
    crashed,          \* the process was terminated by a fault
    \* ---- the callable handed to run / run_async
    fnKind,           \* "countdown", "forever" or "throwing"
    fnN,              \* countdown: initial counter; throwing: invocation that throws; else 0
    fnTemp,           \* the argument is a temporary of the calling full-expression
    fnAlive,          \* the std::function object the loop refers to is alive
    count,            \* the counter captured by the countdown step function
    \* ---- history
    calls,            \* step-function invocations begun by the current loop
    runs,             \* run / run_async calls made so far
    stopIssued,       \* stop() was called since the current run / run_async call
    stopTwice,        \* stop() was called at least twice since then
    asyncReturned,    \* the current run_async call has returned to its caller
    wokenBy,          \* what ended the caller's wait: "none", "signal" or "spurious"
    stopAfterReturn,  \* stop() was called after the current run_async returned
    callsAtStop,      \* value of calls when that stop() was made
    callsAfterStop,   \* invocations begun after that stop() returned
    readValue,        \* result of the latest is_running() call
    readLive,         \* that call came after run_async returned, signalled, loop not yet exited
    flagDrops,        \* true-to-false changes of _is_running since the current call
    staleStop,        \* _keep_running was false when the current call was made
    stopInCall,       \* invocation during which stop() was first called (0: none)
    lastResult,       \* outcome of the latest invocation: "none", "true", "false", "throw"
    calledDead        \* an invocation began after the std::function was destroyed

vars == <<keep_running, is_running, running_fn, futureExc, mutex,
          callerPc, bgPc, runPc, runThread, pendingExc, crashed,
          fnKind, fnN, fnTemp, fnAlive, count,
          calls, runs, stopIssued, stopTwice, asyncReturned, wokenBy,
          stopAfterReturn, callsAtStop, callsAfterStop, readValue, readLive,
          flagDrops, staleStop, stopInCall, lastResult, calledDead>>

fields   == <<keep_running, is_running, running_fn, futureExc, mutex>>
fnVars   == <<fnKind, fnN, fnTemp, fnAlive, count>>
stopHist == <<stopIssued, stopTwice, stopAfterReturn, callsAtStop, callsAfterStop>>
readHist == <<readValue, readLive>>
loopHist == <<flagDrops, staleStop, stopInCall, lastResult, calledDead>>

FnKinds == {"countdown", "forever", "throwing"}

\* run() has exited (or has not been entered since the latest call).
RunExited == runPc \in {"returned", "thrown"}
\* No loop is active and no task is outstanding: the precondition of run / run_async.
NoLoopActive == /\ runPc \in {"none", "returned", "thrown"}
                /\ bgPc \in {"none", "done"}

Init ==
    /\ keep_running = TRUE
    /\ is_running = FALSE
    /\ running_fn = FALSE
    /\ futureExc = FALSE
    /\ mutex = "free"
    /\ callerPc = "idle"
    /\ bgPc = "none"
    /\ runPc = "none"
    /\ runThread = "none"
    /\ pendingExc = FALSE
    /\ crashed = FALSE
    /\ fnKind = "countdown"
    /\ fnN = 0
    /\ fnTemp = FALSE
    /\ fnAlive = FALSE
    /\ count = 0
    /\ calls = 0
    /\ runs = 0
    /\ stopIssued = FALSE
    /\ stopTwice = FALSE
    /\ asyncReturned = FALSE
    /\ wokenBy = "none"
    /\ stopAfterReturn = FALSE
    /\ callsAtStop = 0
    /\ callsAfterStop = 0
    /\ readValue = FALSE
    /\ readLive = FALSE
    /\ flagDrops = 0
    /\ staleStop = FALSE
    /\ stopInCall = 0
    /\ lastResult = "none"
    /\ calledDead = FALSE

\* The caller builds the callable for a new run / run_async call.
NewCall(kind, n, temp) ==
    /\ fnKind' = kind
    /\ fnN' = IF kind = "forever" THEN 0 ELSE n
    /\ fnTemp' = temp
    /\ fnAlive' = TRUE
    /\ count' = IF kind = "countdown" THEN n ELSE 0
    /\ calls' = 0
    /\ runs' = runs + 1
    /\ stopIssued' = FALSE
    /\ stopTwice' = FALSE
    /\ asyncReturned' = FALSE
    /\ wokenBy' = "none"
    /\ stopAfterReturn' = FALSE
    /\ callsAtStop' = 0
    /\ callsAfterStop' = 0
    /\ readValue' = FALSE
    /\ readLive' = FALSE
    /\ pendingExc' = FALSE
    /\ flagDrops' = 0
    /\ staleStop' = ~keep_running
    /\ stopInCall' = 0
    /\ lastResult' = "none"
    /\ calledDead' = FALSE

(***************************************************************************)
(* run(Fn_t&& fn), lines 48-53, on whichever thread called it.             *)
(***************************************************************************)

\* t.run(fn) on the caller's thread (tests, line 97).
CallRun(kind, n) ==
    /\ ~crashed
    /\ callerPc = "idle"
    /\ NoLoopActive
    /\ runs < MaxRuns
    /\ NewCall(kind, n, TRUE)
    /\ callerPc' = "in_run"
    /\ runPc' = "setKeep"
    /\ runThread' = "caller"
    /\ UNCHANGED <<fields, bgPc, crashed>>

\* Mutation: run() does not reset the stop flag.
RunSetKeep_NoReset ==
    /\ ~crashed
    /\ runPc = "setKeep"
    /\ runPc' = "setIs"
    /\ UNCHANGED <<fields, callerPc, bgPc, runThread, pendingExc, crashed, fnVars,
                   calls, runs, asyncReturned, wokenBy, stopHist, readHist, loopHist>>

\* line 49: _keep_running = true
RunSetKeep ==
    /\ ~crashed
    /\ runPc = "setKeep"
    /\ keep_running' = TRUE
    /\ runPc' = "setIs"
    /\ UNCHANGED <<is_running, running_fn, futureExc, mutex, callerPc, bgPc, runThread,
                   pendingExc, crashed, fnVars, calls, runs, asyncReturned, wokenBy,
                   stopHist, readHist, loopHist>>

\* Mutation: run() forgets to raise the liveness flag.
RunSetIs_Forgets ==
    /\ ~crashed
    /\ runPc = "setIs"
    /\ runPc' = "check"
    /\ UNCHANGED <<fields, callerPc, bgPc, runThread, pendingExc, crashed, fnVars,
                   calls, runs, asyncReturned, wokenBy, stopHist, readHist, loopHist>>

\* lines 50-51: _is_running = true; the janitor is armed
RunSetIs ==
    /\ ~crashed
    /\ runPc = "setIs"
    /\ is_running' = TRUE
    /\ runPc' = "check"
    /\ UNCHANGED <<keep_running, running_fn, futureExc, mutex, callerPc, bgPc, runThread,
                   pendingExc, crashed, fnVars, calls, runs, asyncReturned, wokenBy,
                   stopHist, readHist, loopHist>>

\* Mutation: the loop condition is fn() alone, the stop flag is not read.
RunCheck_IgnoresStop ==
    /\ ~crashed
    /\ runPc = "check"
    /\ runPc' = "call"
    /\ UNCHANGED <<fields, callerPc, bgPc, runThread, pendingExc, crashed, fnVars,
                   calls, runs, asyncReturned, wokenBy, stopHist, readHist, loopHist>>

\* line 52: the read of _keep_running in `while (_keep_running && fn())`
RunCheck ==
    /\ ~crashed
    /\ runPc = "check"
    /\ runPc' = IF keep_running THEN "call" ELSE "janitor"
    /\ UNCHANGED <<fields, callerPc, bgPc, runThread, pendingExc, crashed, fnVars,
                   calls, runs, asyncReturned, wokenBy, stopHist, readHist, loopHist>>

\* line 52: fn() is entered
FnBegin ==
    /\ ~crashed
    /\ runPc = "call"
    /\ calls < MaxCalls
    /\ runPc' = "incall"
    /\ calls' = calls + 1
    /\ callsAfterStop' = IF stopAfterReturn THEN callsAfterStop + 1 ELSE callsAfterStop
    /\ calledDead' = (calledDead \/ ~fnAlive)
    /\ UNCHANGED <<fields, callerPc, bgPc, runThread, pendingExc, crashed, fnVars,
                   runs, asyncReturned, wokenBy, stopIssued, stopTwice, stopAfterReturn,
                   callsAtStop, readHist, flagDrops, staleStop, stopInCall, lastResult>>

\* Mutation: the loop leaves after every invocation, whatever it returned.
FnOutcome_ExitsOnTrue(res) ==
    /\ runPc' = "janitor"
    /\ pendingExc' = (res = "throw")
    /\ lastResult' = res

\* How the loop goes on after fn() gave res: "true", "false" or "throw".
FnOutcome(res) ==
    /\ runPc' = IF res = "true" THEN "check" ELSE "janitor"
    /\ pendingExc' = (res = "throw")
    /\ lastResult' = res

\* Mutation: the countdown compares with >= instead of >.
LiveResult_OffByOne ==
    CASE fnKind = "countdown" -> IF count - 1 >= 0 THEN "true" ELSE "false"
      [] fnKind = "forever"   -> "true"
      [] OTHER                -> IF calls = fnN THEN "throw" ELSE "true"

\* What the live step function does: the tests' `--count > 0` (lines 97, 108),
\* one that always returns true, and one that throws at invocation fnN.
LiveResult ==
    CASE fnKind = "countdown" -> IF count - 1 > 0 THEN "true" ELSE "false"
      [] fnKind = "forever"   -> "true"
      [] OTHER                -> IF calls = fnN THEN "throw" ELSE "true"

LiveEffect ==
    count' = IF fnKind = "countdown" THEN count - 1 ELSE count

\* line 52: fn() completes, the std::function object being alive
FnReturn ==
    /\ ~crashed
    /\ runPc = "incall"
    /\ fnAlive
    /\ LiveEffect
    /\ FnOutcome(LiveResult)
    /\ UNCHANGED <<fields, callerPc, bgPc, runThread, crashed, fnKind, fnN, fnTemp,
                   fnAlive, calls, runs, asyncReturned, wokenBy, stopHist, readHist, flagDrops, staleStop, stopInCall, calledDead>>

\* line 52 through the reference captured at line 57: fn() on a std::function
\* whose lifetime has ended.  Undefined behaviour: it may act as the live
\* object did, return either value without running the body, throw
\* (bad_function_call) or fault.
FnDangling ==
    /\ ~crashed
    /\ runPc = "incall"
    /\ ~fnAlive
    /\ \/ /\ LiveEffect
          /\ FnOutcome(LiveResult)
          /\ UNCHANGED crashed
       \/ /\ \E res \in {"true", "false", "throw"} : FnOutcome(res)
          /\ UNCHANGED <<count, crashed>>
       \/ /\ crashed' = TRUE
          /\ UNCHANGED <<count, runPc, pendingExc, lastResult>>
    /\ UNCHANGED <<fields, callerPc, bgPc, runThread, fnKind, fnN, fnTemp,
                   fnAlive, calls, runs, asyncReturned, wokenBy, stopHist, readHist, flagDrops, staleStop, stopInCall, calledDead>>

\* Mutation: the flag is cleared by a statement after the loop instead of a
\* scope guard, so an exception skips it.
Janitor_NotOnThrow ==
    /\ ~crashed
    /\ runPc = "janitor"
    /\ is_running' = (IF pendingExc THEN is_running ELSE FALSE)
    /\ runPc' = IF pendingExc THEN "thrown" ELSE "returned"
    /\ flagDrops' = IF is_running /\ ~is_running' THEN flagDrops + 1 ELSE flagDrops
    /\ UNCHANGED <<keep_running, running_fn, futureExc, mutex, callerPc, bgPc, runThread,
                   pendingExc, crashed, fnVars, calls, runs, asyncReturned, wokenBy,
                   stopHist, readHist, staleStop, stopInCall, lastResult, calledDead>>

\* line 51, ~janitor (line 24): _is_running = false on every way out of run()
Janitor ==
    /\ ~crashed
    /\ runPc = "janitor"
    /\ is_running' = FALSE
    /\ runPc' = IF pendingExc THEN "thrown" ELSE "returned"
    /\ flagDrops' = IF is_running /\ ~is_running' THEN flagDrops + 1 ELSE flagDrops
    /\ UNCHANGED <<keep_running, running_fn, futureExc, mutex, callerPc, bgPc, runThread,
                   pendingExc, crashed, fnVars, calls, runs, asyncReturned, wokenBy,
                   stopHist, readHist, staleStop, stopInCall, lastResult, calledDead>>

\* run() gives control back to the caller (by return or by exception); the
\* temporary callable dies at the end of the calling full-expression.
RunExitCaller ==
    /\ ~crashed
    /\ callerPc = "in_run"
    /\ runThread = "caller"
    /\ RunExited
    /\ callerPc' = "idle"
    /\ fnAlive' = FALSE
    /\ UNCHANGED <<fields, bgPc, runPc, runThread, pendingExc, crashed, fnKind, fnN,
                   fnTemp, count, calls, runs, asyncReturned, wokenBy, stopHist, readHist, loopHist>>

(***************************************************************************)
(* run_async(Fn_t&& fn), lines 55-63, and the task it launches.            *)
(***************************************************************************)

\* Mutation: run_async launches the task without holding _mutex.
CallRunAsync_NoLock(kind, n, temp) ==
    /\ ~crashed
    /\ callerPc = "idle"
    /\ NoLoopActive
    /\ runs < MaxRuns
    /\ mutex = "free"
    /\ NewCall(kind, n, temp)
    /\ callerPc' = "ra_launch"
    /\ runPc' = "none"
    /\ runThread' = "none"
    /\ UNCHANGED <<fields, bgPc, crashed>>

\* line 56: the caller enters run_async and locks _mutex
CallRunAsync(kind, n, temp) ==
    /\ ~crashed
    /\ callerPc = "idle"
    /\ NoLoopActive
    /\ runs < MaxRuns
    /\ mutex = "free"
    /\ NewCall(kind, n, temp)
    /\ mutex' = "caller"
    /\ callerPc' = "ra_launch"
    /\ runPc' = "none"
    /\ runThread' = "none"
    /\ UNCHANGED <<keep_running, is_running, running_fn, futureExc, bgPc, crashed>>

\* line 57: _running_fn = std::async(std::launch::async, ...) starts the task;
\* a previous future, if any, is ready and is released without blocking
RaLaunch ==
    /\ ~crashed
    /\ callerPc = "ra_launch"
    /\ running_fn' = TRUE
    /\ futureExc' = FALSE
    /\ bgPc' = "notify_lock"
    /\ callerPc' = "ra_wait"
    /\ UNCHANGED <<keep_running, is_running, mutex, runPc, runThread, pendingExc,
                   crashed, fnVars, calls, runs, asyncReturned, wokenBy, stopHist,
                   readHist, loopHist>>

\* line 62: _async_run_started.wait(lock) releases the mutex and blocks
RaWait ==
    /\ ~crashed
    /\ callerPc = "ra_wait"
    /\ mutex' = (IF mutex = "caller" THEN "free" ELSE mutex)
    /\ callerPc' = "ra_waiting"
    /\ UNCHANGED <<keep_running, is_running, running_fn, futureExc, bgPc, runPc,
                   runThread, pendingExc, crashed, fnVars, calls, runs, asyncReturned,
                   wokenBy, stopHist, readHist, loopHist>>

\* line 62: wait(lock) has no predicate, and condition_variable::wait may
\* unblock spuriously
SpuriousWake ==
    /\ ~crashed
    /\ callerPc = "ra_waiting"
    /\ callerPc' = "ra_woken"
    /\ wokenBy' = "spurious"
    /\ UNCHANGED <<fields, bgPc, runPc, runThread, pendingExc, crashed, fnVars,
                   calls, runs, asyncReturned, stopHist, readHist, loopHist>>

\* line 62: the woken caller re-locks the mutex, wait returns
RaReacquire ==
    /\ ~crashed
    /\ callerPc = "ra_woken"
    /\ mutex = "free"
    /\ mutex' = "caller"
    /\ callerPc' = "ra_unlock"
    /\ UNCHANGED <<keep_running, is_running, running_fn, futureExc, bgPc, runPc,
                   runThread, pendingExc, crashed, fnVars, calls, runs, asyncReturned,
                   wokenBy, stopHist, readHist, loopHist>>

\* line 63: the lock is released and run_async returns
RaReturn ==
    /\ ~crashed
    /\ callerPc = "ra_unlock"
    /\ mutex' = "free"
    /\ asyncReturned' = TRUE
    /\ callerPc' = "ra_endexpr"
    /\ UNCHANGED <<keep_running, is_running, running_fn, futureExc, bgPc, runPc,
                   runThread, pendingExc, crashed, fnVars, calls, runs, wokenBy,
                   stopHist, readHist, loopHist>>

\* lines 108, 120, 135: the full-expression t.run_async(...) ends; a temporary
\* std::function argument is destroyed, a callable the caller keeps lives on
EndFullExpr ==
    /\ ~crashed
    /\ callerPc = "ra_endexpr"
    /\ fnAlive' = ~fnTemp
    /\ callerPc' = "idle"
    /\ UNCHANGED <<fields, bgPc, runPc, runThread, pendingExc, crashed, fnKind, fnN,
                   fnTemp, count, calls, runs, asyncReturned, wokenBy, stopHist,
                   readHist, loopHist>>

\* lines 58, 73: the task locks _mutex in _notify_async_run_started
BgLock ==
    /\ ~crashed
    /\ bgPc = "notify_lock"
    /\ mutex = "free"
    /\ mutex' = "bg"
    /\ bgPc' = "notify"
    /\ UNCHANGED <<keep_running, is_running, running_fn, futureExc, callerPc, runPc,
                   runThread, pendingExc, crashed, fnVars, calls, runs, asyncReturned,
                   wokenBy, stopHist, readHist, loopHist>>

\* line 74: notify_all wakes the caller if it is blocked in wait, and is
\* lost otherwise
BgNotify ==
    /\ ~crashed
    /\ bgPc = "notify"
    /\ wokenBy' = IF callerPc = "ra_waiting" THEN "signal" ELSE wokenBy
    /\ callerPc' = IF callerPc = "ra_waiting" THEN "ra_woken" ELSE callerPc
    /\ bgPc' = "notify_unlock"
    /\ UNCHANGED <<fields, runPc, runThread, pendingExc, crashed, fnVars, calls,
                   runs, asyncReturned, stopHist, readHist, loopHist>>

\* lines 75, 59: the task unlocks _mutex and calls run(std::move(fn)), which
\* binds run's parameter to the caller's std::function (nothing is moved)
BgUnlock ==
    /\ ~crashed
    /\ bgPc = "notify_unlock"
    /\ mutex' = "free"
    /\ bgPc' = "in_run"
    /\ runPc' = "setKeep"
    /\ runThread' = "bg"
    /\ UNCHANGED <<keep_running, is_running, running_fn, futureExc, callerPc,
                   pendingExc, crashed, fnVars, calls, runs, asyncReturned, wokenBy,
                   stopHist, readHist, loopHist>>

\* line 60: the task's lambda ends; the future becomes ready, holding the
\* exception if run() threw
BgFinish ==
    /\ ~crashed
    /\ bgPc = "in_run"
    /\ runThread = "bg"
    /\ RunExited
    /\ bgPc' = "done"
    /\ futureExc' = (runPc = "thrown")
    /\ UNCHANGED <<keep_running, is_running, running_fn, mutex, callerPc, runPc,
                   runThread, pendingExc, crashed, fnVars, calls, runs, asyncReturned,
                   wokenBy, stopHist, readHist, loopHist>>

(***************************************************************************)
(* stop(), is_running() and the destructor.                                *)
(***************************************************************************)

\* The object exists and is not being destroyed.
ObjectUsable == callerPc \notin {"dtor", "destroyed"}

\* Mutation: stop() flips the flag instead of clearing it.
Stop_Toggles ==
    /\ ~crashed
    /\ ObjectUsable
    /\ keep_running' = ~keep_running
    /\ stopIssued' = TRUE
    /\ stopTwice' = (stopTwice \/ stopIssued)
    /\ IF callerPc = "idle" /\ asyncReturned /\ ~stopAfterReturn
         THEN /\ stopAfterReturn' = TRUE
              /\ callsAtStop' = calls
         ELSE UNCHANGED <<stopAfterReturn, callsAtStop>>
    /\ stopInCall' = IF stopInCall = 0 /\ runPc = "incall" THEN calls ELSE stopInCall
    /\ UNCHANGED <<is_running, running_fn, futureExc, mutex, callerPc, bgPc, runPc,
                   runThread, pendingExc, crashed, fnVars, calls, runs, asyncReturned,
                   wokenBy, callsAfterStop, readHist, flagDrops, staleStop, lastResult, calledDead>>

\* Mutation: stop() also clears the liveness flag.
Stop_ClearsIsRunning ==
    /\ ~crashed
    /\ ObjectUsable
    /\ keep_running' = FALSE
    /\ is_running' = FALSE
    /\ stopIssued' = TRUE
    /\ stopTwice' = (stopTwice \/ stopIssued)
    /\ IF callerPc = "idle" /\ asyncReturned /\ ~stopAfterReturn
         THEN /\ stopAfterReturn' = TRUE
              /\ callsAtStop' = calls
         ELSE UNCHANGED <<stopAfterReturn, callsAtStop>>
    /\ stopInCall' = IF stopInCall = 0 /\ runPc = "incall" THEN calls ELSE stopInCall
    /\ UNCHANGED <<running_fn, futureExc, mutex, callerPc, bgPc, runPc,
                   runThread, pendingExc, crashed, fnVars, calls, runs, asyncReturned,
                   wokenBy, callsAfterStop, readHist, flagDrops, staleStop, lastResult, calledDead>>

\* lines 65-67: stop(), from the owning thread, from another thread or from
\* the step function itself
Stop ==
    /\ ~crashed
    /\ ObjectUsable
    /\ keep_running' = FALSE
    /\ stopIssued' = TRUE
    /\ stopTwice' = (stopTwice \/ stopIssued)
    /\ IF callerPc = "idle" /\ asyncReturned /\ ~stopAfterReturn
         THEN /\ stopAfterReturn' = TRUE
              /\ callsAtStop' = calls
         ELSE UNCHANGED <<stopAfterReturn, callsAtStop>>
    /\ stopInCall' = IF stopInCall = 0 /\ runPc = "incall" THEN calls ELSE stopInCall
    /\ UNCHANGED <<is_running, running_fn, futureExc, mutex, callerPc, bgPc, runPc,
                   runThread, pendingExc, crashed, fnVars, calls, runs, asyncReturned,
                   wokenBy, callsAfterStop, readHist, flagDrops, staleStop, lastResult, calledDead>>

\* line 69: is_running() called by the owning thread
IsRunning ==
    /\ ~crashed
    /\ callerPc = "idle"
    /\ readValue' = is_running
    /\ readLive' = (asyncReturned /\ wokenBy = "signal" /\ ~RunExited)
    /\ UNCHANGED <<fields, callerPc, bgPc, runPc, runThread, pendingExc, crashed,
                   fnVars, calls, runs, asyncReturned, wokenBy, stopHist, loopHist>>

\* line 34: the owning thread destroys the object
DtorEnter ==
    /\ ~crashed
    /\ callerPc = "idle"
    /\ callerPc' = "dtor"
    /\ UNCHANGED <<fields, bgPc, runPc, runThread, pendingExc, crashed, fnVars,
                   calls, runs, asyncReturned, wokenBy, stopHist, readHist, loopHist>>

\* Mutation: the destructor calls get() instead of wait(), which rethrows
\* the exception stored in the future.
DtorReturn_Rethrows ==
    /\ ~crashed
    /\ callerPc = "dtor"
    /\ running_fn => bgPc = "done"
    /\ callerPc' = IF running_fn /\ futureExc THEN "dtor_threw" ELSE "destroyed"
    /\ UNCHANGED <<fields, bgPc, runPc, runThread, pendingExc, crashed, fnVars,
                   calls, runs, asyncReturned, wokenBy, stopHist, readHist, loopHist>>

\* Mutation: the destructor does not wait for the task.
DtorReturn_NoWait ==
    /\ ~crashed
    /\ callerPc = "dtor"
    /\ callerPc' = "destroyed"
    /\ UNCHANGED <<fields, bgPc, runPc, runThread, pendingExc, crashed, fnVars,
                   calls, runs, asyncReturned, wokenBy, stopHist, readHist, loopHist>>

\* lines 35-38: if (_running_fn) _running_fn->wait(); then the destructor returns
DtorReturn ==
    /\ ~crashed
    /\ callerPc = "dtor"
    /\ running_fn => bgPc = "done"
    /\ callerPc' = "destroyed"
    /\ UNCHANGED <<fields, bgPc, runPc, runThread, pendingExc, crashed, fnVars,
                   calls, runs, asyncReturned, wokenBy, stopHist, readHist, loopHist>>

Next ==
    \/ \E kind \in FnKinds, n \in 1..MaxN : CallRun(kind, n)
    \/ \E kind \in FnKinds, n \in 1..MaxN, temp \in BOOLEAN : CallRunAsync(kind, n, temp)
    \/ RunSetKeep
    \/ RunSetIs
    \/ RunCheck
    \/ FnBegin
    \/ FnReturn
    \/ FnDangling
    \/ Janitor
    \/ RunExitCaller
    \/ RaLaunch
    \/ RaWait
    \/ SpuriousWake
    \/ RaReacquire
    \/ RaReturn
    \/ EndFullExpr
    \/ BgLock
    \/ BgNotify
    \/ BgUnlock
    \/ BgFinish
    \/ Stop
    \/ IsRunning
    \/ DtorEnter
    \/ DtorReturn

Spec == Init /\ [][Next]_vars

\* The threads are scheduled fairly: a thread that can take its next step in
\* run_async's handshake eventually takes it.  A spurious wake-up is allowed,
\* never required.
Fairness ==
    /\ WF_vars(RaLaunch) /\ WF_vars(RaWait) /\ WF_vars(RaReacquire)
    /\ WF_vars(RaReturn) /\ WF_vars(EndFullExpr)
    /\ WF_vars(BgLock) /\ WF_vars(BgNotify) /\ WF_vars(BgUnlock)

FairSpec == Spec /\ Fairness

TypeOK ==
    /\ keep_running \in BOOLEAN /\ is_running \in BOOLEAN /\ running_fn \in BOOLEAN
    /\ mutex \in {"free", "caller", "bg"}
    /\ callerPc \in {"idle", "in_run", "ra_launch", "ra_wait", "ra_waiting", "ra_woken",
                     "ra_unlock", "ra_endexpr", "dtor", "destroyed"}
    /\ bgPc \in {"none", "notify_lock", "notify", "notify_unlock", "in_run", "done"}
    /\ runPc \in {"none", "setKeep", "setIs", "check", "call", "incall", "janitor",
                  "returned", "thrown"}
    /\ runThread \in {"none", "caller", "bg"}
    /\ count \in 0..MaxN /\ calls \in 0..MaxCalls /\ runs \in 0..MaxRuns

(***************************************************************************)
(* Properties.                                                             *)
(***************************************************************************)

\* C1 (as stated): an is_running() call made after run_async has returned
\* (the task having signalled) and before the detached loop has exited
\* returns true.
C1_ReadAfterRunAsyncIsTrue == readLive => readValue

\* C2: the destructor returns only when the task has finished, and once it
\* has returned no step-function invocation begins and neither flag is written.
C2_DestructionWaitsForTask ==
    [][ /\ callerPc' = "destroyed" => (running_fn' => bgPc' = "done" /\ RunExited')
        /\ callerPc = "destroyed" => UNCHANGED <<calls, count, keep_running, is_running>>
      ]_vars

C2_Witness ==
    /\ callerPc = "destroyed"
    /\ running_fn
    /\ bgPc = "done"
    /\ calls > 0

\* C3 (as stated): with the callable kept alive and the handshake done, at most one step-function
\* invocation begins after a stop() made once run_async has returned.
C3_AtMostOneCallAfterStop ==
    (stopAfterReturn /\ wokenBy = "signal" /\ ~fnTemp) => callsAfterStop <= 1

\* C4 (as stated): a stop() made after run_async returned, while the countdown
\* still needs more than one further invocation, ends the loop early: when the
\* destructor has returned the function was invoked fewer than N times.
C4_StopEndsLoopEarly ==
    ( /\ callerPc = "destroyed"
      /\ stopAfterReturn
      /\ wokenBy = "signal"
      /\ ~fnTemp
      /\ fnKind = "countdown"
      /\ callsAtStop + 1 < fnN )
    => calls < fnN

\* C5: a blocking run of a countdown from N, with no stop(), invokes the step
\* function exactly N times and returns; it is never invoked more than N times.
C5_SyncRunInvokesExactlyN ==
    (runThread = "caller" /\ fnKind = "countdown" /\ ~stopIssued)
    => /\ calls <= fnN
       /\ runPc # "thrown"
       /\ runPc \in {"janitor", "returned"} => (calls = fnN /\ count = 0)

C5_Witness ==
    /\ runThread = "caller"
    /\ fnKind = "countdown"
    /\ ~stopIssued
    /\ runPc = "returned"
    /\ callerPc = "idle"
    /\ fnN = MaxN
    /\ calls = MaxN

\* C6 (as stated): after run_async of a countdown from N with no stop(), the
\* destructor returns only once the function has been invoked exactly N times.
C6_DestructorDrainsCountdown ==
    ( /\ callerPc = "destroyed"
      /\ asyncReturned
      /\ fnKind = "countdown"
      /\ ~stopIssued )
    => (calls = fnN /\ count = 0)

\* C7: is_running is true exactly while a loop is between its entry (the flag
\* writes of run done) and its exit (the scope guard run), the final failed
\* check included; it is false before the first run and after every loop.
C7_IsRunningIffInLoop ==
    is_running <=> runPc \in {"check", "call", "incall", "janitor"}

C7_Witness ==
    /\ is_running
    /\ runPc = "janitor"
    /\ ~keep_running
    /\ runThread = "bg"
    /\ ~pendingExc

\* C8: under fair scheduling every run_async call returns to its caller,
\* whatever the step function does and whether or not stop() is called.
C8_RunAsyncReturns ==
    (callerPc = "ra_launch") ~> (callerPc = "idle" /\ asyncReturned)

C8_Witness ==
    /\ callerPc = "idle"
    /\ asyncReturned
    /\ wokenBy = "signal"
    /\ fnKind = "forever"
    /\ ~stopIssued
    /\ bgPc = "in_run"
    /\ calls > 1

\* C9 (as stated): run_async returns only because the task of that call has
\* signalled the condition variable.
C9_ReturnOnlyAfterSignal == asyncReturned => wokenBy = "signal"

\* C10: once run has exited, by return or by an exception of the step
\* function, is_running is false.
C10_FlagClearedOnEveryExit == RunExited => ~is_running

C10_Witness ==
    /\ runPc = "thrown"
    /\ runThread = "caller"
    /\ fnKind = "throwing"
    /\ calls = fnN
    /\ ~is_running

\* C11: stop() is idempotent.  A stop() made when _keep_running is already
\* false changes nothing of the object or of the loop; a stop() made before
\* any run leaves is_running false; and however many stop() calls are made,
\* _is_running goes from true to false at most once per started loop.
C11_StopIdempotent ==
    [][ /\ (Stop /\ ~keep_running) =>
              UNCHANGED <<fields, callerPc, bgPc, runPc, runThread, calls, count>>
        /\ (Stop /\ runs = 0) => (~is_running' /\ UNCHANGED <<is_running, running_fn, mutex>>)
        /\ flagDrops' <= 1
      ]_vars

C11_Witness ==
    /\ stopTwice
    /\ ~keep_running
    /\ flagDrops = 1
    /\ runPc = "returned"
    /\ lastResult = "true"
    /\ calls > 0

\* C12: run resets _keep_running at its start.  Whatever stop() left behind
\* before the call, once run is past line 49 and no stop() was made since the
\* call the flag is true, and the loop then goes on exactly as on a fresh
\* object: a countdown from N whose callable is alive is invoked N times.
C12_StaleStopHasNoEffect ==
    /\ (~stopIssued /\ runPc \notin {"none", "setKeep"}) => keep_running
    /\ (~stopIssued /\ fnKind = "countdown" /\ ~calledDead /\ fnAlive /\ RunExited)
          => (calls = fnN /\ count = 0 /\ lastResult = "false")

C12_Witness ==
    /\ staleStop
    /\ ~stopIssued
    /\ fnKind = "countdown"
    /\ fnN = MaxN
    /\ runPc = "returned"
    /\ calls = MaxN
    /\ keep_running

\* C13: the stop flag is read before each invocation and never during one.
\* If stop() is called during invocation k, that invocation still completes
\* with its normal effect, no further invocation begins, and (blocking run,
\* invocation k returning true) run returns after exactly k invocations.
C13_StopTakesEffectAtNextCheck ==
    stopInCall > 0 =>
        /\ calls = stopInCall
        /\ (runThread = "caller" /\ runPc # "incall" /\ fnKind = "countdown")
              => count = fnN - stopInCall
        /\ (runThread = "caller" /\ RunExited /\ lastResult = "true")
              => (runPc = "returned" /\ calls = stopInCall /\ ~is_running)

C13_Witness ==
    /\ runThread = "caller"
    /\ stopInCall = 2
    /\ fnKind = "countdown"
    /\ fnN = MaxN
    /\ lastResult = "true"
    /\ runPc = "returned"
    /\ calls = 2

\* C14: a loop leaves Running only for a stated reason.  When run exits
\* without an error, the latest invocation returned false or the loop read
\* _keep_running = false after a stop(); while no stop() was made and no
\* invocation has returned false or thrown, the loop is still going and
\* is_running is true.
C14_LoopExitsOnlyForAReason ==
    /\ (runPc \in {"janitor", "returned"} /\ ~pendingExc /\ lastResult # "false")
          => (stopIssued /\ ~keep_running)
    /\ (~stopIssued /\ lastResult \in {"none", "true"}
          /\ runPc \notin {"none", "setKeep", "setIs"})
          => (runPc \in {"check", "call", "incall"} /\ is_running)

C14_Witness ==
    /\ runPc = "returned"
    /\ fnKind = "forever"
    /\ fnAlive
    /\ lastResult = "true"
    /\ stopIssued
    /\ ~keep_running
    /\ calls >= 2

\* C15: stop() changes only _keep_running.  It can always be taken while the
\* object exists, whoever holds the handshake mutex; it stores false and
\* leaves is_running, the future, the mutex, the invocation count and every
\* thread's position as they were; with no loop active is_running stays false.
C15_StopChangesOnlyKeepRunning ==
    /\ []((~crashed /\ ObjectUsable) => ENABLED Stop)
    /\ [][ Stop => /\ keep_running' = FALSE
                   /\ UNCHANGED <<is_running, running_fn, futureExc, mutex, calls, count,
                                  callerPc, bgPc, runPc, runThread>>
                   /\ (NoLoopActive => ~is_running')
         ]_vars

C15_Witness ==
    /\ stopIssued
    /\ ~keep_running
    /\ is_running
    /\ running_fn
    /\ runThread = "bg"
    /\ runPc = "incall"
    /\ stopInCall = calls

\* C16 (as stated): when the step function threw in the detached loop, the
\* destructor ends by raising that failure to whoever destroys the object.
C16_FailureRaisedAtDestruction ==
    (callerPc \in {"destroyed", "dtor_threw"} /\ running_fn /\ futureExc)
        => callerPc = "dtor_threw"

\* C16 (amended): the destructor only waits (future::wait, line 36): when the
\* step function threw in the detached loop the destructor still returns
\* normally, and the exception stays, never retrieved, in the future.
C16_FailureNotSurfaced ==
    /\ callerPc # "dtor_threw"
    /\ (bgPc = "done" /\ runThread = "bg" /\ runPc = "thrown") => futureExc
    /\ (callerPc = "destroyed" /\ runThread = "bg" /\ runPc = "thrown")
          => (running_fn /\ futureExc)

C16_Witness ==
    /\ callerPc = "destroyed"
    /\ running_fn
    /\ futureExc
    /\ runThread = "bg"
    /\ fnKind = "throwing"
    /\ ~fnTemp
    /\ lastResult = "throw"
    /\ calls = fnN

\* C17 (as stated): when run_async is given a temporary callable, no
\* invocation by the detached loop begins after that callable was destroyed.
C17_NoCallAfterCallableDestroyed ==
    (runThread = "bg" /\ fnTemp) => ~calledDead
====
